---- MODULE Spec2Model ----
(***************************************************************************)
(* A model of helpers.py: resize, make_tiles and stitch_tiles.             *)
(*                                                                         *)
(* A numpy array is a record [shape |-> <<d1, ..., dk>>, data |-> f] where *)
(* f maps every 0-based index tuple of that shape to the sample stored     *)
(* there.  Python exceptions are modelled by the err field of a call's     *)
(* result, which names the exception class that the call raises ("ok" for  *)
(* a normal return).                                                       *)
(***************************************************************************)
EXTENDS Integers, Sequences, FiniteSets, TLC

VARIABLES
  pc,              \* "start", "tiled", "call_stitch", "stitched", "call_resize", "resized"
  arr,             \* make_tiles: the source image
  tile_shape,      \* make_tiles: <<rows, cols>> of a tile
  pad,             \* make_tiles: reflective padding on each side
  mt_err,          \* make_tiles: the exception raised, or "ok"
  tile_arr,        \* make_tiles' first result, stitch_tiles' first argument
  n_chunks_x,      \* make_tiles' second result
  n_chunks_y,      \* make_tiles' third result
  n_tiles_x,       \* stitch_tiles' arguments
  n_tiles_y,
  n_col_per_tile,
  n_row_per_tile,
  crop,
  st_err,          \* stitch_tiles: the exception raised, or "ok"
  stitch,          \* stitch_tiles' result
  arr_shape,       \* resize: arr.shape, all that resize's arithmetic reads of arr
  width,           \* resize: the target width
  new_shape        \* resize: the dsize handed to cv2.resize

vars == <<pc, arr, tile_shape, pad, mt_err, tile_arr, n_chunks_x, n_chunks_y,
          n_tiles_x, n_tiles_y, n_col_per_tile, n_row_per_tile, crop,
          st_err, stitch, arr_shape, width, new_shape>>

\* ------------------------------------------------------------------ bounds
MaxDim == 6         \* source images have 1..MaxDim rows and columns
MaxChan == 2        \* and 1..MaxChan channels
MaxTile == 3        \* tile_shape components range over -1..MaxTile
MaxPad == 2         \* pad, and the crop of the stitching back, range over 0..MaxPad
MaxGrid == 2        \* stitch_tiles on its own: n_tiles_x, n_tiles_y in 0..MaxGrid
MaxTiles == 4       \* stitch_tiles on its own: 0..MaxTiles tiles
MaxTileDim == 4     \* stitch_tiles on its own: tiles of 1..MaxTileDim rows and columns
MaxStitchTile == 2  \* stitch_tiles on its own: n_col_per_tile, n_row_per_tile in 1..MaxStitchTile
MaxCrop == 1        \* stitch_tiles on its own: crop in 0..MaxCrop
MaxSize == 15       \* resize: heights, widths and target widths in 1..MaxSize

\* ------------------------------------------------------------ numpy arrays
Max(a, b) == IF a >= b THEN a ELSE b
Min(a, b) == IF a <= b THEN a ELSE b

\* The index tuples of an array of the given shape (1 to 4 axes).
Indices(shape) ==
  CASE Len(shape) = 1 -> {<<a>> : a \in 0..(shape[1] - 1)}
    [] Len(shape) = 2 -> {<<a, b>> : a \in 0..(shape[1] - 1), b \in 0..(shape[2] - 1)}
    [] Len(shape) = 3 -> {<<a, b, c>> : a \in 0..(shape[1] - 1), b \in 0..(shape[2] - 1),
                                        c \in 0..(shape[3] - 1)}
    [] Len(shape) = 4 -> {<<a, b, c, d>> : a \in 0..(shape[1] - 1), b \in 0..(shape[2] - 1),
                                           c \in 0..(shape[3] - 1), d \in 0..(shape[4] - 1)}

\* The position of index tuple ix in the row-major (C order) layout of shape.
RECURSIVE Offset(_, _)
Offset(shape, ix) ==
  IF Len(shape) = 0 THEN 0
  ELSE LET n == Len(shape)
       IN  Offset(SubSeq(shape, 1, n - 1), SubSeq(ix, 1, n - 1)) * shape[n] + ix[n]

\* An image whose samples are pairwise distinct and non-zero: sample = 1 + offset.
Coded(shape) == [shape |-> shape, data |-> [ix \in Indices(shape) |-> 1 + Offset(shape, ix)]]

\* np.zeros(shape)
Zeros(shape) == [shape |-> shape, data |-> [ix \in Indices(shape) |-> 0]]

\* A Python slice bound k on an axis of length n: negative counts from the end,
\* and both ends are clipped to the axis.
SliceBound(k, n) == IF k < 0 THEN Max(k + n, 0) ELSE Min(k, n)

\* a[r0:r1, c0:c1] on the first two axes of a 2D or 3D array.
Slice2(a, r0, r1, c0, c1) ==
  LET rlo == SliceBound(r0, a.shape[1])
      rhi == SliceBound(r1, a.shape[1])
      clo == SliceBound(c0, a.shape[2])
      chi == SliceBound(c1, a.shape[2])
      shp == [a.shape EXCEPT ![1] = Max(rhi - rlo, 0), ![2] = Max(chi - clo, 0)]
  IN  [shape |-> shp,
       data |-> [ix \in Indices(shp) |->
                   a.data[[ix EXCEPT ![1] = rlo + ix[1], ![2] = clo + ix[2]]]]]

\* range(0, stop, step) as a sequence (step # 0).
PyRange(stop, step) ==
  LET cnt == IF step > 0 THEN (IF stop > 0 THEN (stop + step - 1) \div step ELSE 0)
             ELSE (IF stop < 0 THEN ((0 - stop) + (0 - step) - 1) \div (0 - step) ELSE 0)
  IN  [k \in 1..cnt |-> (k - 1) * step]

\* int(a / b) for integers a >= 0 and b # 0: true division, truncated toward zero.
\* (For operands this small the double quotient truncates to the same integer as
\* the exact quotient.)
IntTrunc(a, b) == IF b > 0 THEN a \div b ELSE 0 - (a \div (0 - b))

\* ------------------------------------------------------------- make_tiles
\* The tiles taken column band first (for y ... for x ...): the other nesting of the
\* comprehension.
TileListColMajor(a, nrow, ncol) ==
  LET xs == PyRange(a.shape[1], nrow)
      ys == PyRange(a.shape[2], ncol)
  IN  [k \in 1..(Len(xs) * Len(ys)) |->
         LET x == xs[((k - 1) % Len(xs)) + 1]
             y == ys[((k - 1) \div Len(xs)) + 1]
         IN  Slice2(a, x, x + nrow, y, y + ncol)]

\* [arr[x:x+nrow, y:y+ncol] for x in xs for y in ys], the rows of tiles appended
\* one after the other as the comprehension produces them.
RECURSIVE TileRows(_, _, _, _, _)
TileRows(a, xs, ys, nrow, ncol) ==
  IF xs = <<>> THEN <<>>
  ELSE [j \in 1..Len(ys) |-> Slice2(a, Head(xs), Head(xs) + nrow, ys[j], ys[j] + ncol)]
       \o TileRows(a, Tail(xs), ys, nrow, ncol)

TileList(a, nrow, ncol) ==
  TileRows(a, PyRange(a.shape[1], nrow), PyRange(a.shape[2], ncol), nrow, ncol)

\* np.pad mode 'symmetric', which repeats the edge sample: the other mirror convention.
ReflectSymmetric(k, n) ==
  LET period == 2 * n
      t == k % period
  IN  IF t < n THEN t ELSE period - 1 - t

\* np.pad mode 'reflect': the index, on an axis of length n, of the sample that
\* position k of the extended axis shows (k < 0 and k >= n are the padding).  The
\* axis is mirrored about its first and last samples without repeating them; an
\* axis of length 1 is extended by its only sample.
Reflect(k, n) ==
  IF n = 1 THEN 0
  ELSE LET period == 2 * (n - 1)
           t == k % period
       IN  IF t < n THEN t ELSE period - t

\* np.pad(tile, ((p, p), (p, p), (0, 0)), 'reflect') of a 3D tile.
PadTile(tile, p) ==
  LET shp == <<tile.shape[1] + 2 * p, tile.shape[2] + 2 * p, tile.shape[3]>>
  IN  [shape |-> shp,
       data |-> [ix \in Indices(shp) |->
                   tile.data[<<Reflect(ix[1] - p, tile.shape[1]),
                               Reflect(ix[2] - p, tile.shape[2]), ix[3]>>]]]

\* np.asarray(list of equally shaped arrays); of the empty list, an array of shape (0,).
AsArray(tiles) ==
  IF tiles = <<>> THEN [shape |-> <<0>>, data |-> <<>>]
  ELSE LET shp == <<Len(tiles)>> \o tiles[1].shape
       IN  [shape |-> shp,
            data |-> [ix \in Indices(shp) |-> tiles[ix[1] + 1].data[Tail(ix)]]]

\* The crop keeping the bottom-right corner instead of the origin.
CropToGridFromEnd(a, nrow, ncol, nx, ny) ==
  Slice2(a, a.shape[1] - nrow * ny, a.shape[1], a.shape[2] - ncol * nx, a.shape[2])

\* arr[0:n_row_per_chunk*n_chunks_y, 0:n_col_per_chunk*n_chunks_x]
CropToGrid(a, nrow, ncol, nx, ny) == Slice2(a, 0, nrow * ny, 0, ncol * nx)

\* make_tiles(a, shape, p) for an in-memory array a: the exception raised or "ok",
\* and the three values returned.
make_tiles(a, shape, p) ==
  LET n_row_per_chunk == shape[1]
      n_col_per_chunk == shape[2]
      failed(e) == [err |-> e, tile_arr |-> <<>>, n_chunks_x |-> 0, n_chunks_y |-> 0]
  IN  IF n_col_per_chunk = 0 \/ n_row_per_chunk = 0 THEN failed("ZeroDivisionError")
      ELSE LET nx == IntTrunc(a.shape[2], n_col_per_chunk)
               ny == IntTrunc(a.shape[1], n_row_per_chunk)
               cropped == CropToGrid(a, n_row_per_chunk, n_col_per_chunk, nx, ny)
               tiles == TileList(cropped, n_row_per_chunk, n_col_per_chunk)
           IN  IF p # 0 /\ tiles # <<>> /\ Len(a.shape) # 3
               THEN failed("ValueError")   \* np.pad: three pad pairs for a 2D tile
               ELSE [err |-> "ok",
                     tile_arr |-> AsArray(IF p # 0
                                          THEN [k \in 1..Len(tiles) |-> PadTile(tiles[k], p)]
                                          ELSE tiles),
                     n_chunks_x |-> nx,
                     n_chunks_y |-> ny]

\* ----------------------------------------------------------- stitch_tiles
\* np.unravel_index with order='F': the column-major decomposition.
UnravelIndexF(ndx, dims) ==
  IF ndx < 0 \/ ndx >= dims[1] * dims[2]
  THEN [err |-> "ValueError", i |-> 0, j |-> 0]
  ELSE [err |-> "ok", i |-> ndx % dims[1], j |-> ndx \div dims[1]]

\* np.unravel_index(ndx, dims) for a pair dims, in C order; an index outside the
\* grid raises ValueError.
UnravelIndex(ndx, dims) ==
  IF ndx < 0 \/ ndx >= dims[1] * dims[2]
  THEN [err |-> "ValueError", i |-> 0, j |-> 0]
  ELSE [err |-> "ok", i |-> ndx \div dims[2], j |-> ndx % dims[2]]

\* The tile with neither side cropped on the column axis: tile_arr[ndx, c:-c].
CropTileRowsOnly(ta, ndx, c) ==
  LET whole == [shape |-> Tail(ta.shape),
                data |-> [ix \in Indices(Tail(ta.shape)) |-> ta.data[<<ndx>> \o ix]]]
  IN  IF c # 0 THEN Slice2(whole, c, 0 - c, 0, whole.shape[2]) ELSE whole

\* tile_arr[ndx, c:-c, c:-c] if c else tile_arr[ndx], of a 4D tile_arr.
CropTile(ta, ndx, c) ==
  LET whole == [shape |-> Tail(ta.shape),
                data |-> [ix \in Indices(Tail(ta.shape)) |-> ta.data[<<ndx>> \o ix]]]
  IN  IF c # 0 THEN Slice2(whole, c, 0 - c, c, 0 - c) ELSE whole

\* numpy broadcasting of a value of shape src into a target of shape dst (equal
\* ranks): every axis agrees or has length 1 in the source.
Broadcastable(src, dst) ==
  /\ Len(src) = Len(dst)
  /\ \A d \in 1..Len(src) : src[d] = dst[d] \/ src[d] = 1

\* st[i:i+nrow, j:j+ncol] = tile with the row and column offsets exchanged.
PlaceSwapped(st, i, j, nrow, ncol, tile) ==
  LET rlo == SliceBound(j, st.shape[1])
      rhi == SliceBound(j + nrow, st.shape[1])
      clo == SliceBound(i, st.shape[2])
      chi == SliceBound(i + ncol, st.shape[2])
      dst == <<Max(rhi - rlo, 0), Max(chi - clo, 0), st.shape[3]>>
  IN  IF ~Broadcastable(tile.shape, dst)
      THEN [err |-> "ValueError", arr |-> st]
      ELSE [err |-> "ok",
            arr |-> [st EXCEPT !.data =
                       [ix \in Indices(st.shape) |->
                          IF /\ rlo <= ix[1] /\ ix[1] < rhi
                             /\ clo <= ix[2] /\ ix[2] < chi
                          THEN tile.data[<<IF tile.shape[1] = 1 THEN 0 ELSE ix[1] - rlo,
                                           IF tile.shape[2] = 1 THEN 0 ELSE ix[2] - clo,
                                           ix[3]>>]
                          ELSE st.data[ix]]]]

\* st[i:i+nrow, j:j+ncol] = tile: the tile is broadcast to the slice, and a tile
\* that cannot be broadcast raises ValueError.
Place(st, i, j, nrow, ncol, tile) ==
  LET rlo == SliceBound(i, st.shape[1])
      rhi == SliceBound(i + nrow, st.shape[1])
      clo == SliceBound(j, st.shape[2])
      chi == SliceBound(j + ncol, st.shape[2])
      dst == <<Max(rhi - rlo, 0), Max(chi - clo, 0), st.shape[3]>>
  IN  IF ~Broadcastable(tile.shape, dst)
      THEN [err |-> "ValueError", arr |-> st]
      ELSE [err |-> "ok",
            arr |-> [st EXCEPT !.data =
                       [ix \in Indices(st.shape) |->
                          IF /\ rlo <= ix[1] /\ ix[1] < rhi
                             /\ clo <= ix[2] /\ ix[2] < chi
                          THEN tile.data[<<IF tile.shape[1] = 1 THEN 0 ELSE ix[1] - rlo,
                                           IF tile.shape[2] = 1 THEN 0 ELSE ix[2] - clo,
                                           ix[3]>>]
                          ELSE st.data[ix]]]]

\* The loop of stitch_tiles from tile ndx on, st being the image so far.
RECURSIVE StitchLoop(_, _, _, _, _, _, _, _)
StitchLoop(st, ndx, ta, nx, ny, ncol, nrow, c) ==
  IF ndx >= ta.shape[1] THEN [err |-> "ok", stitch |-> st]
  ELSE LET ij == UnravelIndex(ndx, <<ny, nx>>)
       IN  IF ij.err # "ok" THEN [err |-> ij.err, stitch |-> <<>>]
           ELSE LET placed == Place(st, ij.i * nrow, ij.j * ncol, nrow, ncol,
                                    CropTile(ta, ndx, c))
                IN  IF placed.err # "ok" THEN [err |-> placed.err, stitch |-> <<>>]
                    ELSE StitchLoop(placed.arr, ndx + 1, ta, nx, ny, ncol, nrow, c)

\* stitch_tiles(ta, nx, ny, ncol, nrow, c): the exception raised or "ok", and the
\* image returned.
stitch_tiles(ta, nx, ny, ncol, nrow, c) ==
  IF Len(ta.shape) < 4 THEN [err |-> "IndexError", stitch |-> <<>>]  \* tile_arr.shape[3]
  ELSE IF nrow * ny < 0 \/ ncol * nx < 0
  THEN [err |-> "ValueError", stitch |-> <<>>]                        \* np.zeros
  ELSE StitchLoop(Zeros(<<nrow * ny, ncol * nx, ta.shape[4]>>), 0, ta, nx, ny, ncol, nrow, c)

\* The pixels <<row, col>> of the stitched image that the loop's iteration ndx
\* assigns: stitch[i:i+n_row_per_tile, j:j+n_col_per_tile].
TileRegion(ndx, nx, ny, ncol, nrow) ==
  LET ij == UnravelIndex(ndx, <<ny, nx>>)
  IN  {<<r, c>> : r \in (ij.i * nrow)..(ij.i * nrow + nrow - 1),
                  c \in (ij.j * ncol)..(ij.j * ncol + ncol - 1)}

\* ------------------------------------------------------------------ resize
\* Python's float is the IEEE 754 double.  A positive double is modelled by its
\* 53-bit significand, held in three limbs <<hi, mid, lo>> of 17, 18 and 18 bits
\* (2^16 <= hi < 2^17), and the exponent exp of its leading bit: its value is
\* (hi * 2^36 + mid * 2^18 + lo) * 2^(exp - 52).
RECURSIVE Pow2(_)
Pow2(n) == IF n = 0 THEN 1 ELSE 2 * Pow2(n - 1)

Limb == Pow2(18)
HiUnit == Pow2(16)

\* The largest e >= 0 with b * 2^e <= a (for a >= b > 0).
RECURSIVE ExpUp(_, _)
ExpUp(a, b) == IF 2 * b <= a THEN 1 + ExpUp(a, 2 * b) ELSE 0

\* The least k >= 0 with a * 2^k >= b (for a, b > 0).
RECURSIVE ExpDown(_, _)
ExpDown(a, b) == IF a >= b THEN 0 ELSE 1 + ExpDown(2 * a, b)

\* Round to nearest, ties to even: the double nearest to the exact value whose
\* leading 53 bits are sig and whose discarded part is more than, exactly, or less
\* than half a unit in the last place (half = 1, 0, -1).
RoundNearestEven(sig, exp, half) ==
  IF half > 0 \/ (half = 0 /\ sig[3] % 2 = 1)
  THEN LET up == IF sig[3] + 1 < Limb THEN <<sig[1], sig[2], sig[3] + 1>>
                 ELSE IF sig[2] + 1 < Limb THEN <<sig[1], sig[2] + 1, 0>>
                 ELSE <<sig[1] + 1, 0, 0>>
       IN  IF up[1] = 2 * HiUnit
           THEN [sig |-> <<HiUnit, 0, 0>>, exp |-> exp + 1]
           ELSE [sig |-> up, exp |-> exp]
  ELSE [sig |-> sig, exp |-> exp]

\* a / b in double arithmetic, for integers a, b > 0 (each exactly a double): long
\* division of num / den in [1, 2), a limb at a time, then rounding.
FloatDiv(a, b) ==
  LET up == IF a >= b THEN ExpUp(a, b) ELSE 0
      down == IF a >= b THEN 0 ELSE ExpDown(a, b)
      num == a * Pow2(down)
      den == b * Pow2(up)
      hi == (num * HiUnit) \div den
      r1 == (num * HiUnit) % den
      mid == (r1 * Limb) \div den
      r2 == (r1 * Limb) % den
      lo == (r2 * Limb) \div den
      r3 == (r2 * Limb) % den
      half == IF 2 * r3 > den THEN 1 ELSE IF 2 * r3 = den THEN 0 ELSE 0 - 1
  IN  RoundNearestEven(<<hi, mid, lo>>, up - down, half)

\* h * f in double arithmetic, for an integer h > 0 (exactly a double) and a double
\* f: the exact product limb by limb, shifted back to 53 bits, then rounded.
FloatMulInt(h, f) ==
  LET p3 == h * f.sig[3]
      p2 == h * f.sig[2] + p3 \div Limb
      p1 == h * f.sig[1] + p2 \div Limb
      l2 == p2 % Limb
      l3 == p3 % Limb
      extra == ExpUp(p1, HiUnit)
      s == Pow2(extra)
      hi == p1 \div s
      mid == (p1 % s) * (Limb \div s) + l2 \div s
      lo == (l2 % s) * (Limb \div s) + l3 \div s
      dropped == l3 % s
      half == IF 2 * dropped > s THEN 1 ELSE IF 2 * dropped = s THEN 0 ELSE 0 - 1
  IN  RoundNearestEven(<<hi, mid, lo>>, f.exp + extra, half)

\* int(f) of a positive double below 2^17: its integer part.
IntOfFloat(f) == IF f.exp < 0 THEN 0 ELSE f.sig[1] \div Pow2(16 - f.exp)

\* The new_shape that resize computes for an array of shape shp and hands to
\* cv2.resize as dsize = (columns, rows).
resize(shp, w) ==
  LET ratio == FloatDiv(w, shp[2])
      height == IntOfFloat(FloatMulInt(shp[1], ratio))
  IN  <<w, height>>

\* ------------------------------------------------------------ the program
None == "None"

TileDims == (0 - 1)..MaxTile

\* The source images: 2D (no channel axis) and 3D.  No operation reads a sample's
\* value, so one image with pairwise distinct samples per shape decides where
\* every sample goes.
Images ==
  {Coded(<<h, w>>) : h \in 1..MaxDim, w \in 1..MaxDim}
  \cup {Coded(<<h, w, c>>) : h \in 1..MaxDim, w \in 1..MaxDim, c \in 1..MaxChan}

\* The tile arrays handed to stitch_tiles by a caller: 4D, and the 3D ones that
\* tiling a 2D image gives.
TileArrays ==
  {Coded(<<n, r, c, ch>>) : n \in 0..MaxTiles, r \in 1..MaxTileDim,
                            c \in 1..MaxTileDim, ch \in 1..MaxChan}
  \cup {Coded(<<n, r, c>>) : n \in 1..MaxTiles, r \in 1..MaxStitchTile, c \in 1..MaxStitchTile}

\* Tiling an image and stitching the tiles back.
Init ==
  /\ pc = "start"
  /\ arr \in Images
  /\ tile_shape \in TileDims \X TileDims
  /\ pad \in 0..MaxPad
  /\ mt_err = None /\ tile_arr = None /\ n_chunks_x = None /\ n_chunks_y = None
  /\ n_tiles_x = None /\ n_tiles_y = None /\ n_col_per_tile = None
  /\ n_row_per_tile = None /\ crop = None
  /\ st_err = None /\ stitch = None
  /\ arr_shape = None /\ width = None /\ new_shape = None

\* tile_arr, n_chunks_x, n_chunks_y = make_tiles(arr, tile_shape, pad)
MakeTiles ==
  /\ pc = "start"
  /\ LET res == make_tiles(arr, tile_shape, pad)
     IN  /\ mt_err' = res.err
         /\ tile_arr' = res.tile_arr
         /\ n_chunks_x' = res.n_chunks_x
         /\ n_chunks_y' = res.n_chunks_y
  /\ pc' = "tiled"
  /\ UNCHANGED <<arr, tile_shape, pad, n_tiles_x, n_tiles_y, n_col_per_tile,
                 n_row_per_tile, crop, st_err, stitch, arr_shape, width, new_shape>>

\* stitch = stitch_tiles(tile_arr, n_chunks_x, n_chunks_y, tile_cols, tile_rows, crop):
\* the inverse of make_tiles, called with what make_tiles returned.
StitchBack ==
  /\ pc = "tiled"
  /\ mt_err = "ok"
  /\ \E c \in 0..MaxPad :
       LET res == stitch_tiles(tile_arr, n_chunks_x, n_chunks_y,
                               tile_shape[2], tile_shape[1], c)
       IN  /\ crop' = c
           /\ n_tiles_x' = n_chunks_x
           /\ n_tiles_y' = n_chunks_y
           /\ n_col_per_tile' = tile_shape[2]
           /\ n_row_per_tile' = tile_shape[1]
           /\ st_err' = res.err
           /\ stitch' = res.stitch
  /\ pc' = "stitched"
  /\ UNCHANGED <<arr, tile_shape, pad, mt_err, tile_arr, n_chunks_x, n_chunks_y,
                 arr_shape, width, new_shape>>

Next == MakeTiles \/ StitchBack

Spec == Init /\ [][Next]_vars

\* stitch_tiles called on its own, on any tile array and any grid.
InitStitch ==
  /\ pc = "call_stitch"
  /\ tile_arr \in TileArrays
  /\ n_tiles_x \in 0..MaxGrid
  /\ n_tiles_y \in 0..MaxGrid
  /\ n_col_per_tile \in 1..MaxStitchTile
  /\ n_row_per_tile \in 1..MaxStitchTile
  /\ crop \in 0..MaxCrop
  /\ arr = None /\ tile_shape = None /\ pad = None
  /\ mt_err = None /\ n_chunks_x = None /\ n_chunks_y = None
  /\ st_err = None /\ stitch = None
  /\ arr_shape = None /\ width = None /\ new_shape = None

\* stitch = stitch_tiles(tile_arr, n_tiles_x, n_tiles_y, n_col_per_tile, n_row_per_tile, crop)
StitchTiles ==
  /\ pc = "call_stitch"
  /\ LET res == stitch_tiles(tile_arr, n_tiles_x, n_tiles_y,
                             n_col_per_tile, n_row_per_tile, crop)
     IN  /\ st_err' = res.err
         /\ stitch' = res.stitch
  /\ pc' = "stitched"
  /\ UNCHANGED <<arr, tile_shape, pad, mt_err, tile_arr, n_chunks_x, n_chunks_y,
                 n_tiles_x, n_tiles_y, n_col_per_tile, n_row_per_tile, crop,
                 arr_shape, width, new_shape>>

SpecStitch == InitStitch /\ [][StitchTiles]_vars

\* resize called on an image of arr_shape = (rows, cols).
InitResize ==
  /\ pc = "call_resize"
  /\ arr_shape \in (1..MaxSize) \X (1..MaxSize)
  /\ width \in 1..MaxSize
  /\ new_shape = None
  /\ arr = None /\ tile_shape = None /\ pad = None
  /\ mt_err = None /\ tile_arr = None /\ n_chunks_x = None /\ n_chunks_y = None
  /\ n_tiles_x = None /\ n_tiles_y = None /\ n_col_per_tile = None
  /\ n_row_per_tile = None /\ crop = None
  /\ st_err = None /\ stitch = None

\* arr_resize = resize(arr, width), up to the call of cv2.resize
Resize ==
  /\ pc = "call_resize"
  /\ new_shape' = resize(arr_shape, width)
  /\ pc' = "resized"
  /\ UNCHANGED <<arr, tile_shape, pad, mt_err, tile_arr, n_chunks_x, n_chunks_y,
                 n_tiles_x, n_tiles_y, n_col_per_tile, n_row_per_tile, crop,
                 st_err, stitch, arr_shape, width>>

SpecResize == InitResize /\ [][Resize]_vars

\* ------------------------------------------------------------- properties
Rows == arr.shape[1]
Cols == arr.shape[2]
TileRowsArg == tile_shape[1]
TileColsArg == tile_shape[2]
PositiveTile == TileRowsArg > 0 /\ TileColsArg > 0
ExactMultiple == PositiveTile /\ Rows % TileRowsArg = 0 /\ Cols % TileColsArg = 0
Tiled == pc \in {"tiled", "stitched"}

\* The stitched image equals the source on the top-left region that the grid covers.
StitchedIsCroppedSource ==
  /\ st_err = "ok"
  /\ stitch.shape = <<TileRowsArg * n_chunks_y, TileColsArg * n_chunks_x, arr.shape[3]>>
  /\ \A ix \in Indices(stitch.shape) : stitch.data[ix] = arr.data[ix]

\* C1: stitching with crop = 0 the tiles that make_tiles (pad = 0) cut from a 3D
\* image whose rows and columns are positive exact multiples of the tile's gives an
\* image of the source's shape, equal to the source at every pixel.
C1_RoundTrip ==
  (pc = "stitched" /\ Len(arr.shape) = 3 /\ ExactMultiple /\ pad = 0 /\ crop = 0)
    => (StitchedIsCroppedSource /\ stitch.shape = arr.shape)

C1_Witness ==
  /\ pc = "stitched" /\ Len(arr.shape) = 3 /\ ExactMultiple /\ pad = 0 /\ crop = 0
  /\ n_chunks_x = 3 /\ n_chunks_y = 2 /\ arr.shape[3] = 2
  /\ st_err = "ok" /\ stitch.shape = arr.shape

BlockSource(ix) ==
  [Tail(ix) EXCEPT ![1] = (ix[1] \div n_chunks_x) * TileRowsArg + ix[2],
                   ![2] = (ix[1] % n_chunks_x) * TileColsArg + ix[3]]

\* C3: with pad = 0 (and a positive tile_shape) make_tiles returns exactly
\* grid_cols * grid_rows tiles, and the tile at flat index ndx is the source block of
\* row band ndx \div grid_cols and column band ndx % grid_cols.
C3_RowMajorTiles ==
  (Tiled /\ PositiveTile /\ pad = 0)
    => /\ mt_err = "ok"
       /\ tile_arr.shape[1] = n_chunks_x * n_chunks_y
       /\ tile_arr.shape[1] > 0 =>
            /\ tile_arr.shape = <<n_chunks_x * n_chunks_y, TileRowsArg, TileColsArg>>
                                  \o Tail(Tail(arr.shape))
            /\ \A ix \in Indices(tile_arr.shape) :
                 tile_arr.data[ix] = arr.data[BlockSource(ix)]

C3_Witness ==
  /\ pc = "tiled" /\ PositiveTile /\ pad = 0 /\ mt_err = "ok"
  /\ n_chunks_x >= 2 /\ n_chunks_y >= 2
  /\ tile_arr.shape[1] = 4
  /\ TileColsArg >= 2

\* How many positions of the tile array hold sample v.
Occurrences(v) == Cardinality({ix \in DOMAIN tile_arr.data : tile_arr.data[ix] = v})

\* C4: for a positive tile_shape make_tiles returns grid_cols = floor(W / tile_cols)
\* and grid_rows = floor(H / tile_rows); with pad = 0 every pixel of the top-left
\* (tile_rows * grid_rows, tile_cols * grid_cols) region is in exactly one tile and
\* the remaining bottom rows and right columns are in none.  (The samples of the
\* source are pairwise distinct, so a pixel is where its sample is.)
C4_CropTruncation ==
  (Tiled /\ PositiveTile /\ mt_err = "ok")
    => /\ n_chunks_x = Cols \div TileColsArg
       /\ n_chunks_y = Rows \div TileRowsArg
       /\ pad = 0 =>
            \A ix \in Indices(arr.shape) :
              Occurrences(arr.data[ix]) =
                IF ix[1] < TileRowsArg * (Rows \div TileRowsArg)
                   /\ ix[2] < TileColsArg * (Cols \div TileColsArg)
                THEN 1 ELSE 0

C4_Witness ==
  /\ pc = "tiled" /\ PositiveTile /\ mt_err = "ok" /\ pad = 0
  /\ Rows % TileRowsArg # 0 /\ Cols % TileColsArg # 0
  /\ n_chunks_x >= 1 /\ n_chunks_y >= 2

\* What is left of an axis of length n after crop:-crop.
PostCrop(n) == IF crop = 0 THEN n ELSE Max(n - 2 * crop, 0)
TileCountMatches == tile_arr.shape[1] = n_tiles_x * n_tiles_y
TileShapeMatches ==
  PostCrop(tile_arr.shape[2]) = n_row_per_tile /\ PostCrop(tile_arr.shape[3]) = n_col_per_tile

\* C5 as stated: stitch_tiles fails, returning no array, whenever the number of
\* tiles differs from grid_cols * grid_rows, and whenever some tile's shape after
\* cropping differs from (tile_rows, tile_cols, C).
C5_RejectsInconsistentInput ==
  (pc = "stitched"
     /\ (~TileCountMatches \/ (tile_arr.shape[1] > 0 /\ ~TileShapeMatches)))
    => st_err # "ok"

\* C6 as stated: make_tiles fails whenever a component of tile_shape is <= 0 and
\* whenever the source is smaller than one tile along either axis; it never returns
\* an empty tile array with a zero grid count.
C6_RejectsInvalidInput ==
  Tiled =>
    /\ (TileRowsArg <= 0 \/ TileColsArg <= 0) => mt_err # "ok"
    /\ (PositiveTile /\ (Rows < TileRowsArg \/ Cols < TileColsArg)) => mt_err # "ok"
    /\ mt_err = "ok" => ~(tile_arr.shape[1] = 0 /\ (n_chunks_x = 0 \/ n_chunks_y = 0))

\* C7 as stated: for a 2D image whose rows and columns are positive exact multiples
\* of the tile's and every pad p >= 0, make_tiles returns tiles of shape
\* (tile_rows + 2p, tile_cols + 2p), and stitch_tiles with crop = p returns an
\* array equal to the image.
C7_ChannelAxisOptional ==
  (Len(arr.shape) = 2 /\ ExactMultiple) =>
    /\ Tiled =>
         /\ mt_err = "ok"
         /\ tile_arr.shape = <<n_chunks_x * n_chunks_y,
                               TileRowsArg + 2 * pad, TileColsArg + 2 * pad>>
    /\ (pc = "stitched" /\ crop = pad) =>
         /\ st_err = "ok"
         /\ \A ix \in Indices(arr.shape) : stitch.data[ix] = arr.data[ix]

\* C8 as stated: resize asks cv2.resize for target_width columns by exactly
\* floor(H * target_width / W) rows.
C8_ResizeHeight ==
  pc = "resized" =>
    new_shape = <<width, (arr_shape[1] * width) \div arr_shape[2]>>

\* C9: when the 4D tile array holds exactly grid_cols * grid_rows tiles whose
\* post-crop shape is (tile_rows, tile_cols, C), stitch_tiles returns an image of
\* shape (tile_rows * grid_rows, tile_cols * grid_cols, C) whose pixel (r, c) is
\* pixel (crop + r mod tile_rows, crop + c mod tile_cols) of the tile at index
\* (r div tile_rows) * grid_cols + (c div tile_cols); the regions that the tiles are
\* written to are pairwise disjoint and cover the image, and no zero of the
\* initial image is left (the samples of the tiles are non-zero).
C9_StitchPlacement ==
  (pc = "stitched" /\ Len(tile_arr.shape) = 4 /\ TileCountMatches /\ TileShapeMatches)
    => /\ st_err = "ok"
       /\ stitch.shape = <<n_row_per_tile * n_tiles_y, n_col_per_tile * n_tiles_x,
                           tile_arr.shape[4]>>
       /\ \A ix \in Indices(stitch.shape) :
            /\ stitch.data[ix] =
                 tile_arr.data[<<(ix[1] \div n_row_per_tile) * n_tiles_x
                                   + (ix[2] \div n_col_per_tile),
                                 crop + (ix[1] % n_row_per_tile),
                                 crop + (ix[2] % n_col_per_tile),
                                 ix[3]>>]
            /\ stitch.data[ix] # 0
       /\ \A m, n \in 0..(tile_arr.shape[1] - 1) :
            m # n => TileRegion(m, n_tiles_x, n_tiles_y, n_col_per_tile, n_row_per_tile)
                       \cap TileRegion(n, n_tiles_x, n_tiles_y, n_col_per_tile,
                                       n_row_per_tile) = {}
       /\ UNION {TileRegion(m, n_tiles_x, n_tiles_y, n_col_per_tile, n_row_per_tile) :
                   m \in 0..(tile_arr.shape[1] - 1)}
            = {<<r, c>> : r \in 0..(n_row_per_tile * n_tiles_y - 1),
                          c \in 0..(n_col_per_tile * n_tiles_x - 1)}

C9_Witness ==
  /\ pc = "stitched" /\ Len(tile_arr.shape) = 4 /\ TileCountMatches /\ TileShapeMatches
  /\ crop = 1 /\ n_tiles_x = 2 /\ n_tiles_y = 2
  /\ n_col_per_tile = 2 /\ n_row_per_tile = 1 /\ tile_arr.shape[4] = 2
  /\ st_err = "ok"

\* m(k, n): the mirror of position k on an axis of length n that does
\* not repeat the edge.
Mirror(k, n) == IF k < 0 THEN 0 - k ELSE IF k < n THEN k ELSE 2 * (n - 1) - k

\* C10: for a 3D source and 0 < pad < min(tile_rows, tile_cols) every returned tile
\* has shape (tile_rows + 2 pad, tile_cols + 2 pad, C), and its pixel
\* (pad + r, pad + c) is pixel (m(r, tile_rows), m(c, tile_cols)) of the unpadded
\* tile, which is the source block of the tile's row and column band: the interior
\* is the tile and the border mirrors the tile itself, not its neighbours.
C10_ReflectivePadding ==
  (Tiled /\ Len(arr.shape) = 3 /\ PositiveTile
     /\ 0 < pad /\ pad < Min(TileRowsArg, TileColsArg))
    => /\ mt_err = "ok"
       /\ tile_arr.shape[1] > 0 =>
            /\ tile_arr.shape = <<n_chunks_x * n_chunks_y, TileRowsArg + 2 * pad,
                                  TileColsArg + 2 * pad, arr.shape[3]>>
            /\ \A ix \in Indices(tile_arr.shape) :
                 tile_arr.data[ix] =
                   arr.data[<<(ix[1] \div n_chunks_x) * TileRowsArg
                                + Mirror(ix[2] - pad, TileRowsArg),
                              (ix[1] % n_chunks_x) * TileColsArg
                                + Mirror(ix[3] - pad, TileColsArg),
                              ix[4]>>]

C10_Witness ==
  /\ pc = "tiled" /\ Len(arr.shape) = 3 /\ PositiveTile /\ mt_err = "ok"
  /\ pad = 2 /\ TileRowsArg = 3 /\ TileColsArg = 3
  /\ n_chunks_x = 2 /\ n_chunks_y = 2
  /\ tile_arr.shape = <<4, 7, 7, arr.shape[3]>>

====
